---------------------------- MODULE Spec2Model ----------------------------
(***************************************************************************)
(* A model of SemanticVersioner (src/main.py): the version resolver, the   *)
(* range scanner, the version bumper, the dev pre-release engine, the tag  *)
(* publisher and the scope formatter, over a small git repository.         *)
(*                                                                         *)
(* Text is modelled as sequences of tokens: a tag name "v1.2.0-dev.3" is   *)
(* <<W("v"), N(1), P("."), N(2), P("."), N(0), P("-"), W("dev"), P("."),   *)
(* N(3)>>, so that formatting a version and parsing a tag name are two     *)
(* different computations.  Words carry no digits.                         *)
(***************************************************************************)
EXTENDS Integers, Sequences, FiniteSets, TLC

VARIABLES
    parents,        \* parents[c]: the parents of commit c (commits are 1..Len(parents))
    message,        \* message[c]: the commit message, a sequence of lines
    branches,       \* local branches: name -> head commit
    remote_refs,    \* remote references: <<remote, name, ...>> -> commit
    tags,           \* the tag store: tag name -> commit
    pc,             \* "idle", or "ready" once initialize() has returned True
    self,           \* the SemanticVersioner object's fields
    result,         \* what the last call returned, and the error it logged
    github_output,  \* the previous-version / new-version outputs of the last call
    args,           \* the options the workflow passes to every run of the program
    probe           \* the argument and result of a pure function under test

vars == <<parents, message, branches, remote_refs, tags, pc, self, result,
          github_output, args, probe>>

-----------------------------------------------------------------------------
(* Bounds of the model *)

MaxCommits == 3

MaxNum == 2

MaxScopeLen == 4

MaxRange == 3

-----------------------------------------------------------------------------
(* Tokens *)

N(n) == [k |-> "n", n |-> n, s |-> ""]

W(s) == [k |-> "w", n |-> 0, s |-> s]

P(s) == [k |-> "p", n |-> 0, s |-> s]

IsNum(t) == t.k = "n"

IsWord(t) == t.k = "w"

Dot == P(".")

Dash == P("-")

None == [k |-> "None", n |-> 0, s |-> ""]

RECURSIVE Join(_, _)
\* sep.join(parts), for a sequence of token sequences
Join(parts, sep) ==
    IF Len(parts) = 0 THEN <<>>
    ELSE IF Len(parts) = 1 THEN parts[1]
    ELSE parts[1] \o sep \o Join(Tail(parts), sep)

RECURSIVE Split(_, _)
\* text.split(sep): the maximal sep-free pieces, empty ones included
Split(text, sep) ==
    IF \A i \in 1..Len(text) : text[i] # sep THEN <<text>>
    ELSE LET i == CHOOSE i \in 1..Len(text) :
                      text[i] = sep /\ \A j \in 1..(i - 1) : text[j] # sep
         IN <<SubSeq(text, 1, i - 1)>> \o Split(SubSeq(text, i + 1, Len(text)), sep)

Max(S) == CHOOSE x \in S : \A y \in S : y <= x

Min(S) == CHOOSE x \in S : \A y \in S : x <= y

-----------------------------------------------------------------------------
(* semver.Version as the program uses it.  prerelease is the sequence of   *)
(* the dot-separated identifiers; <<>> is "no pre-release" (None).         *)

Version(major, minor, patch, prerelease) ==
    [major |-> major, minor |-> minor, patch |-> patch, prerelease |-> prerelease]

NoVersion == [major |-> -1, minor |-> -1, patch |-> -1, prerelease |-> <<>>]

\* the pre-release string of a version: its identifiers joined by "."
PrereleaseText(ids) == Join([i \in 1..Len(ids) |-> <<ids[i]>>], <<Dot>>)

\* str(version)
VersionStr(v) ==
    <<N(v.major), Dot, N(v.minor), Dot, N(v.patch)>>
        \o (IF v.prerelease = <<>> THEN <<>> ELSE <<Dash>> \o PrereleaseText(v.prerelease))

\* an identifier of a pre-release: a number or a word
IsIdent(t) == IsNum(t) \/ IsWord(t)

\* whether text is identifiers separated by single dots
IsDotted(text) ==
    /\ Len(text) % 2 = 1
    /\ \A i \in 1..Len(text) : IF i % 2 = 1 THEN IsIdent(text[i]) ELSE text[i] = Dot

Identifiers(text) == [i \in 1..((Len(text) + 1) \div 2) |-> text[2 * i - 1]]

\* semver.Version.parse(text): NoVersion stands for ValueError
VersionParse(text) ==
    IF /\ Len(text) >= 5
       /\ IsNum(text[1]) /\ text[2] = Dot /\ IsNum(text[3]) /\ text[4] = Dot
       /\ IsNum(text[5])
       /\ \/ Len(text) = 5
          \/ /\ Len(text) >= 7
             /\ text[6] = Dash
             /\ IsDotted(SubSeq(text, 7, Len(text)))
    THEN Version(text[1].n, text[3].n, text[5].n,
                 IF Len(text) = 5 THEN <<>>
                 ELSE Identifiers(SubSeq(text, 7, Len(text))))
    ELSE NoVersion

\* the order of the words of the model, as Python compares strings
WordRank(s) ==
    CASE s = "alpha" -> 1
      [] s = "dev" -> 2
      [] s = "rc" -> 3
      [] OTHER -> 4

Cmp(a, b) == IF a < b THEN -1 ELSE IF a > b THEN 1 ELSE 0

\* semver's comparison of two pre-release identifiers
CmpIdent(a, b) ==
    IF IsNum(a) /\ IsNum(b) THEN Cmp(a.n, b.n)
    ELSE IF IsNum(a) THEN -1
    ELSE IF IsNum(b) THEN 1
    ELSE Cmp(WordRank(a.s), WordRank(b.s))

RECURSIVE NatCmp(_, _)
\* semver's _nat_cmp on two pre-release strings
NatCmp(a, b) ==
    IF Len(a) = 0 \/ Len(b) = 0 THEN Cmp(Len(a), Len(b))
    ELSE LET c == CmpIdent(Head(a), Head(b))
         IN IF c # 0 THEN c ELSE NatCmp(Tail(a), Tail(b))

\* semver.Version.compare
VersionCompare(v1, v2) ==
    IF v1.major # v2.major THEN Cmp(v1.major, v2.major)
    ELSE IF v1.minor # v2.minor THEN Cmp(v1.minor, v2.minor)
    ELSE IF v1.patch # v2.patch THEN Cmp(v1.patch, v2.patch)
    ELSE LET rccmp == NatCmp(v1.prerelease, v2.prerelease)
         IN IF rccmp = 0 THEN 0
            ELSE IF v1.prerelease = <<>> THEN 1
            ELSE IF v2.prerelease = <<>> THEN -1
            ELSE rccmp

bump_major(v) == Version(v.major + 1, 0, 0, <<>>)

bump_minor(v) == Version(v.major, v.minor + 1, 0, <<>>)

bump_patch(v) == Version(v.major, v.minor, v.patch + 1, <<>>)

\* semver's _increment_string: the last number of the string plus one
IncrementString(ids) ==
    IF \A i \in 1..Len(ids) : ~IsNum(ids[i]) THEN ids
    ELSE LET i == Max({j \in 1..Len(ids) : IsNum(ids[j])})
         IN [ids EXCEPT ![i] = N(ids[i].n + 1)]

\* semver.Version.bump_prerelease(token)
bump_prerelease(v, token) ==
    Version(v.major, v.minor, v.patch,
            IncrementString(IF v.prerelease # <<>> THEN v.prerelease
                            ELSE <<W(token), N(0)>>))

\* version.replace(prerelease=...)
replace_prerelease(v, prerelease) == Version(v.major, v.minor, v.patch, prerelease)

-----------------------------------------------------------------------------
(* Commit messages.  A line is a sequence of text tokens, for example      *)
(* <<"feat", "(", "api", ")", "!", ":", " ", "x">>.                        *)

PATCH == 0

MINOR == 1

MAJOR == 2

VersionUpdateEnum == {PATCH, MINOR, MAJOR}

FEATURE == 0

FIX == 1

CommitType_OTHER == 2

\* re.I: the lower-case form of a token
Lower(t) ==
    CASE t \in {"fix", "Fix", "FIX"} -> "fix"
      [] t \in {"feat", "Feat", "FEAT"} -> "feat"
      [] t \in {"breaking", "Breaking", "BREAKING"} -> "breaking"
      [] t \in {"change", "Change", "CHANGE"} -> "change"
      [] OTHER -> t

IsSpace(t) == t \in {" ", "\t"}

NoMatch == [matched |-> FALSE, scoped |-> FALSE, scope |-> <<>>]

\* whether text, from position i on, starts with the tokens of lit
StartsAt(text, i, lit) ==
    /\ i + Len(lit) - 1 <= Len(text)
    /\ \A j \in 1..Len(lit) : text[i + j - 1] = lit[j]

\* ^word(\((?P<scope>.*)\))?tail with re.I, matched against the start of line;
\* tail is <<":">> or <<"!", ":">>.  The group is greedy: the scope runs to
\* the last ")" that tail follows.
MatchConventional(line, word, tail) ==
    IF Len(line) = 0 \/ Lower(Head(line)) # word THEN NoMatch
    ELSE LET close == {j \in 3..Len(line) : line[j] = ")" /\ StartsAt(line, j + 1, tail)}
         IN IF Len(line) >= 2 /\ line[2] = "(" /\ close # {}
            THEN [matched |-> TRUE, scoped |-> TRUE,
                  scope |-> SubSeq(line, 3, Max(close) - 1)]
            ELSE IF StartsAt(line, 2, tail)
            THEN [matched |-> TRUE, scoped |-> FALSE, scope |-> <<>>]
            ELSE NoMatch

\* ^breaking\s+change: with re.I; the pattern has no scope group
MatchBreaking(line) ==
    IF /\ Len(line) >= 4
       /\ Lower(line[1]) = "breaking"
       /\ \E j \in 3..(Len(line) - 1) :
             /\ \A i \in 2..(j - 1) : IsSpace(line[i])
             /\ Lower(line[j]) = "change"
             /\ line[j + 1] = ":"
    THEN [matched |-> TRUE, scoped |-> FALSE, scope |-> <<>>]
    ELSE NoMatch

\* The rules, in the order of the list
_version_update_regexes ==
    << [regex |-> "fix", version_update |-> PATCH, commit_type |-> FIX],
       [regex |-> "feat", version_update |-> MINOR, commit_type |-> FEATURE],
       [regex |-> "fix!", version_update |-> MAJOR, commit_type |-> FIX],
       [regex |-> "feat!", version_update |-> MAJOR, commit_type |-> FEATURE],
       [regex |-> "breaking", version_update |-> MAJOR, commit_type |-> CommitType_OTHER] >>

\* version_update_regex.regex.match(line)
RegexMatch(rule, line) ==
    CASE rule.regex = "fix" -> MatchConventional(line, "fix", <<":">>)
      [] rule.regex = "feat" -> MatchConventional(line, "feat", <<":">>)
      [] rule.regex = "fix!" -> MatchConventional(line, "fix", <<"!", ":">>)
      [] rule.regex = "feat!" -> MatchConventional(line, "feat", <<"!", ":">>)
      [] OTHER -> MatchBreaking(line)

\* the loop body without the comparison: the last rule that matches wins
UpdateStep_LastMatch(version_update, rule, line) ==
    IF RegexMatch(rule, line).matched THEN rule.version_update ELSE version_update

\* the body of the innermost loop of _get_version_update_type
UpdateStep(version_update, rule, line) ==
    IF RegexMatch(rule, line).matched /\ rule.version_update > version_update
    THEN rule.version_update
    ELSE version_update

RECURSIVE FoldRules(_, _, _)
FoldRules(version_update, i, line) ==
    IF i > Len(_version_update_regexes) THEN version_update
    ELSE FoldRules(UpdateStep(version_update, _version_update_regexes[i], line),
                   i + 1, line)

RECURSIVE FoldLines(_, _)
FoldLines(version_update, lines) ==
    IF lines = <<>> THEN version_update
    ELSE FoldLines(FoldRules(version_update, 1, Head(lines)), Tail(lines))

RECURSIVE FoldCommits(_, _)
\* the loops of _get_version_update_type over the messages of the commits
\* in the order iter_commits yields them
FoldCommits(version_update, messages) ==
    IF messages = <<>> THEN version_update
    ELSE FoldCommits(FoldLines(version_update, Head(messages)), Tail(messages))

VersionUpdateOf(messages) == FoldCommits(PATCH, messages)

\* the version_update_match.group("scope") of generate_changelog raises
\* IndexError on a line the breaking-change rule matches
ChangelogRaises(messages) ==
    \E i \in 1..Len(messages) : \E j \in 1..Len(messages[i]) :
        MatchBreaking(messages[i][j]).matched

\* the bumper with the MINOR branch bumping the patch number
_bump_version_MinorAsPatch(previous_version, update_type) ==
    IF update_type = PATCH THEN bump_patch(previous_version)
    ELSE IF update_type = MINOR THEN bump_patch(previous_version)
    ELSE IF update_type = MAJOR THEN bump_major(previous_version)
    ELSE previous_version

\* _bump_version(previous_version, update_type)
_bump_version(previous_version, update_type) ==
    IF update_type = PATCH THEN bump_patch(previous_version)
    ELSE IF update_type = MINOR THEN bump_minor(previous_version)
    ELSE IF update_type = MAJOR THEN bump_major(previous_version)
    ELSE previous_version

-----------------------------------------------------------------------------
(* The git repository, as GitPython shows it to the program *)

Commits == 1..Len(parents)

NoCommit == 0

RECURSIVE Ancestors(_)
\* the commits reachable from c, c included
Ancestors(c) ==
    {c} \cup UNION {Ancestors(parents[c][i]) : i \in 1..Len(parents[c])}

\* the k-th element (from 1, cyclically) of a non-empty set of numbers
RECURSIVE Pick(_, _)
Pick(S, k) ==
    IF k <= 1 \/ Cardinality(S) = 1 THEN Min(S) ELSE Pick(S \ {Min(S)}, k - 1)

\* the choices git may make where its documentation leaves the answer open:
\* two commits have two best common ancestors only in a history of four
\* commits or more
GitChoices == IF Len(parents) >= 4 THEN {1, 2} ELSE {1}

\* the best common ancestors of a and b (git merge-base --all)
BestCommonAncestors(a, b) ==
    LET common == Ancestors(a) \cap Ancestors(b)
        above == UNION {Ancestors(y) \ {y} : y \in common}
    IN common \ above

\* repo.merge_base(a, b): without --all git prints one best common ancestor,
\* whichever it likes (choice k), or nothing; a None argument is dropped from
\* the command line, git exits with its usage error and the list is empty
merge_base(a, b, k) ==
    IF a = NoCommit \/ b = NoCommit THEN <<>>
    ELSE LET best == BestCommonAncestors(a, b)
         IN IF best = {} THEN <<>> ELSE <<Pick(best, k)>>

RECURSIVE Descending(_)
\* the commits of S, newest first
Descending(S) ==
    IF S = {} THEN <<>> ELSE LET c == Max(S) IN <<c>> \o Descending(S \ {c})

\* repo.iter_commits(f"{start_commit}..{end_commit}"), both commits existing
iter_commits(start_commit, end_commit) ==
    Descending(Ancestors(end_commit) \ Ancestors(start_commit))

MessagesOf(commits) == [i \in 1..Len(commits) |-> message[commits[i]]]

\* _get_version_update_type(start_commit, end_commit), both commits existing
_get_version_update_type(start_commit, end_commit) ==
    VersionUpdateOf(MessagesOf(iter_commits(start_commit, end_commit)))

\* _get_branch_head_commit(branch_name): the local branches first, then the
\* references of the remote whose name has exactly two parts
_get_branch_head_commit(branch_name) ==
    IF branch_name \in DOMAIN branches THEN branches[branch_name]
    ELSE IF \E r \in DOMAIN remote_refs :
                Len(r) = 2 /\ r[1] = "origin" /\ r[2] = branch_name
    THEN remote_refs[<<"origin", branch_name>>]
    ELSE NoCommit

_version_prefix == <<W("v")>>

\* tag.name[len(self._version_prefix):]; the tag names of the model start
\* with a token of one character
StripPrefix(name) == SubSeq(name, Len(_version_prefix) + 1, Len(name))

NotFound == [version |-> NoVersion, commit |-> NoCommit]

\* the list _get_latest_version collects: for every tag whose name parses,
\* the tag and its version, without the pre-releases when they are not wanted
VersionTags(include_prerelease) ==
    LET version == [name \in DOMAIN tags |-> VersionParse(StripPrefix(name))]
    IN {[tag |-> name, version |-> version[name]] :
            name \in {n \in DOMAIN tags :
                        /\ version[n] # NoVersion
                        /\ ~(version[n].prerelease # <<>> /\ ~include_prerelease)}}

\* t put into a list sorted by version, highest first
InsertByVersion(t, sorted) ==
    LET before == Cardinality({i \in 1..Len(sorted) :
                                 VersionCompare(sorted[i].version, t.version) >= 0})
    IN SubSeq(sorted, 1, before) \o <<t>> \o SubSeq(sorted, before + 1, Len(sorted))

RECURSIVE SortedByVersion(_)
\* sorted(tags, key=lambda t: t["version"], reverse=True)
SortedByVersion(entries) ==
    IF entries = {} THEN <<>>
    ELSE LET t == CHOOSE t \in entries : TRUE
         IN InsertByVersion(t, SortedByVersion(entries \ {t}))

\* the test without the comparison with the tag's commit: a tag passes when
\* its commit and the target have a merge base at all
IsTagOnHistory_AnyMergeBase(name, commit, k) ==
    Len(merge_base(tags[name], commit, k)) = 1

\* the test of the loop of _get_latest_version
IsTagOnHistory(name, commit, k) ==
    LET common_ancestors == merge_base(tags[name], commit, k)
    IN Len(common_ancestors) = 1 /\ common_ancestors[1] = tags[name]

RECURSIVE FirstOnHistory(_, _, _)
FirstOnHistory(sorted, commit, k) ==
    IF sorted = <<>> THEN NotFound
    ELSE IF IsTagOnHistory(Head(sorted).tag, commit, k)
    THEN [version |-> Head(sorted).version, commit |-> tags[Head(sorted).tag]]
    ELSE FirstOnHistory(Tail(sorted), commit, k)

\* _get_latest_version(commit, include_prerelease)
_get_latest_version(commit, include_prerelease, k) ==
    FirstOnHistory(SortedByVersion(VersionTags(include_prerelease)), commit, k)

\* _get_version_strings(version)
_get_version_strings(version, include_shorter_versions) ==
    LET suffix == IF version.prerelease # <<>>
                  THEN <<Dash, version.prerelease[1]>> ELSE <<>>
        full == _version_prefix \o VersionStr(version)
        mmp == _version_prefix
                 \o <<N(version.major), Dot, N(version.minor), Dot, N(version.patch)>>
                 \o suffix
        mm == _version_prefix \o <<N(version.major), Dot, N(version.minor)>> \o suffix
        m == _version_prefix \o <<N(version.major)>> \o suffix
    IN IF ~include_shorter_versions THEN <<full>>
       ELSE IF suffix # <<>> THEN <<full, mmp, mm, m>>
       ELSE <<full, mm, m>>

Without(store, name) == [n \in (DOMAIN store) \ {name} |-> store[n]]

RECURSIVE AddTags(_, _, _, _, _)
\* the loop of _add_version_tags_to_commit.  existing_tags is the snapshot
\* taken before the loop, done the names the loop has been through.  A tag
\* of the snapshot is deleted here and on the remote (which holds the same
\* tags when the call starts) and created again.  For a name that comes a
\* second time, git refuses the remote deletion (the snapshot had it) or the
\* creation (it had not), and GitCommandError ends the call.
AddTags(tag_names, commit, store, existing_tags, done) ==
    IF tag_names = <<>> THEN [tags |-> store, raised |-> FALSE]
    ELSE LET tag_name == Head(tag_names)
         IN IF tag_name \in existing_tags /\ tag_name \in done
            THEN [tags |-> Without(store, tag_name), raised |-> TRUE]
            ELSE IF tag_name \notin existing_tags /\ tag_name \in DOMAIN store
            THEN [tags |-> store, raised |-> TRUE]
            ELSE AddTags(Tail(tag_names), commit,
                         (tag_name :> commit) @@ Without(store, tag_name),
                         existing_tags, done \cup {tag_name})

\* _add_version_tags_to_commit(commit, version) on the tag store
_add_version_tags_to_commit(commit, version, include_shorter_versions) ==
    AddTags(_get_version_strings(version, include_shorter_versions), commit,
            tags, DOMAIN tags, {})

-----------------------------------------------------------------------------
(* The dev pre-release engine: lines 378-471 of add_dev_tags *)

INCREMENTING == 0

SEMANTIC == 1

DevVersionStyle == {INCREMENTING, SEMANTIC}

\* the comparison of the major numbers alone
SameBase_MajorOnly(v1, v2) == v1.major = v2.major

SameBase(v1, v2) ==
    <<v1.major, v1.minor, v1.patch>> = <<v2.major, v2.minor, v2.patch>>

\* latest_dev_version.prerelease.split(".")[1:], [] without a pre-release
PrereleaseBits(latest_dev_version) ==
    IF latest_dev_version.prerelease # <<>> THEN Tail(latest_dev_version.prerelease)
    ELSE <<>>

\* latest_dev_version after lines 380-415
AdjustedLatestDev(latest_dev_version, dev_suffix, dev_version_style) ==
    LET bits == PrereleaseBits(latest_dev_version)
    IN IF latest_dev_version.prerelease # <<>>
       THEN IF dev_version_style = INCREMENTING /\ Len(bits) > 1
            THEN replace_prerelease(latest_dev_version, <<W(dev_suffix), bits[1]>>)
            ELSE IF dev_version_style = SEMANTIC /\ Len(bits) = 1
            THEN replace_prerelease(latest_dev_version,
                                    <<W(dev_suffix), bits[1], N(0), N(0)>>)
            ELSE latest_dev_version
       ELSE IF dev_version_style = INCREMENTING
            THEN replace_prerelease(latest_dev_version, <<W(dev_suffix), N(0)>>)
            ELSE replace_prerelease(latest_dev_version,
                                    <<W(dev_suffix), N(0), N(0), N(0)>>)

\* new_dev_version after lines 378-415
AdjustedNewDev(latest_main_version, latest_dev_version, version_update_type, dev_suffix, dev_version_style) ==
    LET bumped == _bump_version(latest_main_version, version_update_type)
    IN IF latest_dev_version.prerelease # <<>> THEN bumped
       ELSE IF dev_version_style = INCREMENTING
       THEN replace_prerelease(bumped, <<W(dev_suffix), N(0)>>)
       ELSE replace_prerelease(bumped, <<W(dev_suffix), N(0), N(0), N(0)>>)

\* lines 449-456: the nested version parsed from the bits of the tag found;
\* raised names the exception that ends the call
NestedVersion(bits) ==
    IF VersionParse(PrereleaseText(bits)) # NoVersion
    THEN [version |-> VersionParse(PrereleaseText(bits)), raised |-> ""]
    ELSE IF bits = <<>> THEN [version |-> NoVersion, raised |-> "IndexError"]
    ELSE IF VersionParse(<<bits[1]>>) # NoVersion
    THEN [version |-> VersionParse(<<bits[1]>>), raised |-> ""]
    ELSE [version |-> NoVersion, raised |-> "ValueError"]

\* the engine without the semantic branch of lines 441-469: the pre-release
\* is incremented whatever the style and the dev update type
NextDevVersion_AlwaysIncrement(latest_main_version, latest_dev_version, version_update_type, dev_version_update_type, dev_suffix, dev_version_style) ==
    LET latest == AdjustedLatestDev(latest_dev_version, dev_suffix, dev_version_style)
        new == AdjustedNewDev(latest_main_version, latest_dev_version,
                              version_update_type, dev_suffix, dev_version_style)
    IN IF SameBase(new, latest)
       THEN [version |-> bump_prerelease(latest, dev_suffix), raised |-> ""]
       ELSE [version |-> bump_prerelease(new, dev_suffix), raised |-> ""]

\* the new dev version of lines 378-471
NextDevVersion(latest_main_version, latest_dev_version, version_update_type, dev_version_update_type, dev_suffix, dev_version_style) ==
    LET bits == PrereleaseBits(latest_dev_version)
        latest == AdjustedLatestDev(latest_dev_version, dev_suffix, dev_version_style)
        new == AdjustedNewDev(latest_main_version, latest_dev_version,
                              version_update_type, dev_suffix, dev_version_style)
        nested == NestedVersion(bits)
    IN IF dev_version_style = INCREMENTING \/ dev_version_update_type = PATCH
       THEN IF SameBase(new, latest)
            THEN [version |-> bump_prerelease(latest, dev_suffix), raised |-> ""]
            ELSE [version |-> bump_prerelease(new, dev_suffix), raised |-> ""]
       ELSE IF SameBase(new, latest)
            THEN IF nested.raised # "" THEN nested
                 ELSE [version |->
                         replace_prerelease(new,
                            Identifiers(<<W(dev_suffix), Dot>>
                                \o VersionStr(_bump_version(nested.version,
                                                            dev_version_update_type)))),
                       raised |-> ""]
            ELSE [version |-> replace_prerelease(new, <<W(dev_suffix), N(0), N(0), N(1)>>),
                  raised |-> ""]

-----------------------------------------------------------------------------
(* The calls of main(): initialize, then add_main_tags or add_dev_tags *)

NoSelf == [main_branch |-> "", main_head_commit |-> NoCommit,
           include_shorter_versions |-> FALSE]

NoOutput == [previous_version |-> <<>>, new_version |-> <<>>]

\* What a call leaves behind.  ret is "True", "False" or "raised" (an uncaught
\* exception, named by error); error is otherwise the log.error message;
\* latest, update_type, dev_update_type and version are the values the call
\* logs; commit is the commit the tags were added to.
NoResult ==
    [op |-> "-", ret |-> "-", error |-> "",
     main_branch |-> "", include_shorter_versions |-> FALSE,
     dev_branch |-> "", dev_suffix |-> "", dev_version_style |-> INCREMENTING,
     changelog_file |-> FALSE,
     head |-> NoCommit, latest |-> NotFound,
     update_type |-> PATCH, dev_update_type |-> PATCH,
     version |-> NoVersion, commit |-> NoCommit]

\* the outcome of a call before it is applied to the repository
Outcome(ret, error, latest, version, changelog) ==
    [ret |-> ret, error |-> error, latest |-> latest, version |-> version,
     changelog |-> changelog]

\* the message of the commit write_changelog makes
ChangelogCommitMessage == << <<"Update", " ", "changelog", " ", "for", " ", "version">> >>

\* add_main_tags up to the point where the tags are added
MainRun(changelog_file, k) ==
    LET head == self.main_head_commit
        latest == _get_latest_version(head, FALSE, k)
    IN IF latest.commit = head
       THEN Outcome("False", "AlreadyTagged", latest, NoVersion, FALSE)
       ELSE IF latest.commit = NoCommit
       THEN \* iter_commits("None..<head>"): git rev-list fails
            Outcome("raised", "GitCommandError", latest, NoVersion, FALSE)
       ELSE LET new_version ==
                    _bump_version(latest.version,
                                  _get_version_update_type(latest.commit, head))
            IN IF changelog_file
                  /\ ChangelogRaises(MessagesOf(iter_commits(latest.commit, head)))
               THEN Outcome("raised", "IndexError", latest, new_version, FALSE)
               ELSE Outcome("True", "", latest, new_version, changelog_file)

\* add_dev_tags up to the point where the tags are added
DevRun(dev_branch, dev_suffix, dev_version_style, changelog_file, k) ==
    LET dev_head_commit == _get_branch_head_commit(dev_branch)
        latest_main == _get_latest_version(self.main_head_commit, FALSE, k)
        latest_dev == _get_latest_version(dev_head_commit, TRUE, k)
        common_ancestors == merge_base(self.main_head_commit, dev_head_commit, k)
    IN IF latest_main.version = NoVersion
       THEN Outcome("False", "LatestMainVersionNotFound", latest_dev, NoVersion, FALSE)
       ELSE IF latest_dev.version = NoVersion
       THEN Outcome("False", "LatestDevVersionNotFound", latest_dev, NoVersion, FALSE)
       ELSE IF latest_dev.commit = dev_head_commit
       THEN Outcome("False", "AlreadyTagged", latest_dev, NoVersion, FALSE)
       ELSE IF Len(common_ancestors) # 1
       THEN Outcome("False", "NoCommonAncestor", latest_dev, NoVersion, FALSE)
       ELSE LET next ==
                    NextDevVersion(
                        latest_main.version, latest_dev.version,
                        _get_version_update_type(common_ancestors[1], dev_head_commit),
                        _get_version_update_type(latest_dev.commit, dev_head_commit),
                        dev_suffix, dev_version_style)
            IN IF next.raised # ""
               THEN Outcome("raised", next.raised, latest_dev, NoVersion, FALSE)
               ELSE IF changelog_file
                       /\ ChangelogRaises(
                            MessagesOf(iter_commits(latest_dev.commit, dev_head_commit)))
               THEN Outcome("raised", "IndexError", latest_dev, next.version, FALSE)
               ELSE Outcome("True", "", latest_dev, next.version, changelog_file)

\* the update types a dev call logs (lines 358-371), PATCH when it ends before
DevUpdateTypes(dev_branch, latest_dev, k) ==
    LET dev_head_commit == _get_branch_head_commit(dev_branch)
        common_ancestors == merge_base(self.main_head_commit, dev_head_commit, k)
    IN IF latest_dev.commit = NoCommit \/ dev_head_commit = NoCommit
          \/ Len(common_ancestors) # 1
       THEN <<PATCH, PATCH>>
       ELSE <<_get_version_update_type(common_ancestors[1], dev_head_commit),
              _get_version_update_type(latest_dev.commit, dev_head_commit)>>

\* the end of add_main_tags and add_dev_tags: the changelog commit on branch,
\* the tags, the outputs and the return value
Finish(o, branch, head, rec) ==
    LET commit == IF o.changelog THEN Len(parents) + 1 ELSE head
        added == IF o.ret = "True"
                 THEN _add_version_tags_to_commit(commit, o.version,
                                                  self.include_shorter_versions)
                 ELSE [tags |-> tags, raised |-> FALSE]
    IN /\ tags' = added.tags
       /\ IF o.changelog
          THEN /\ parents' = Append(parents, <<head>>)
               /\ message' = Append(message, ChangelogCommitMessage)
               /\ branches' = (branch :> commit) @@ branches
               /\ remote_refs' = (<<"origin", branch>> :> commit) @@ remote_refs
          ELSE UNCHANGED <<parents, message, branches, remote_refs>>
       /\ result' = [rec EXCEPT
                        !.ret = IF added.raised THEN "raised" ELSE o.ret,
                        !.error = IF added.raised THEN "GitCommandError" ELSE o.error,
                        !.main_branch = self.main_branch,
                        !.include_shorter_versions = self.include_shorter_versions,
                        !.head = head,
                        !.latest = o.latest,
                        !.version = o.version,
                        !.commit = IF o.ret = "True" THEN commit ELSE NoCommit]
       /\ github_output' =
            [previous_version |->
                IF o.ret # "False" /\ o.latest.version # NoVersion
                THEN _get_version_strings(o.latest.version,
                                          self.include_shorter_versions)[1]
                ELSE <<>>,
             new_version |->
                IF o.version # NoVersion
                THEN _get_version_strings(o.version, self.include_shorter_versions)[1]
                ELSE <<>>]
       /\ pc' = "idle"
       /\ self' = NoSelf
       /\ UNCHANGED <<args, probe>>

\* SemanticVersioner(...).initialize()
Initialize(main_branch) ==
    /\ pc = "idle"
    /\ IF _get_branch_head_commit(main_branch) = NoCommit
       THEN /\ result' = [NoResult EXCEPT !.op = "initialize", !.ret = "False",
                                          !.error = "BranchNotFound",
                                          !.main_branch = main_branch]
            /\ github_output' = NoOutput
            /\ UNCHANGED <<pc, self>>
       ELSE /\ pc' = "ready"
            /\ self' = [main_branch |-> main_branch,
                        main_head_commit |-> _get_branch_head_commit(main_branch),
                        include_shorter_versions |-> args.include_shorter_versions]
            /\ UNCHANGED <<result, github_output>>
    /\ UNCHANGED <<parents, message, branches, remote_refs, tags, args, probe>>

\* add_main_tags(changelog_file)
AddMainTags ==
    /\ pc = "ready"
    /\ args.changelog_file => Len(parents) < MaxCommits
    /\ \E k \in GitChoices :
          LET o == MainRun(args.changelog_file, k)
          IN Finish(o, self.main_branch, self.main_head_commit,
                    [NoResult EXCEPT
                        !.op = "add_main_tags",
                        !.changelog_file = args.changelog_file,
                        !.update_type =
                            IF o.latest.commit \in {NoCommit, self.main_head_commit}
                            THEN PATCH
                            ELSE _get_version_update_type(o.latest.commit,
                                                          self.main_head_commit)])

\* the style main() passes to add_dev_tags
StyleOf(use_semantic_dev_versions) ==
    IF use_semantic_dev_versions THEN SEMANTIC ELSE INCREMENTING

\* add_dev_tags(dev_branch, dev_suffix, dev_version_style, changelog_file)
AddDevTags(dev_branch, dev_suffix) ==
    /\ pc = "ready"
    /\ args.changelog_file => Len(parents) < MaxCommits
    /\ \E k \in GitChoices :
          LET o == DevRun(dev_branch, dev_suffix,
                          StyleOf(args.use_semantic_dev_versions),
                          args.changelog_file, k)
              types == DevUpdateTypes(dev_branch, o.latest, k)
          IN Finish(o, dev_branch, _get_branch_head_commit(dev_branch),
                    [NoResult EXCEPT
                        !.op = "add_dev_tags",
                        !.dev_branch = dev_branch,
                        !.dev_suffix = dev_suffix,
                        !.dev_version_style = StyleOf(args.use_semantic_dev_versions),
                        !.changelog_file = args.changelog_file,
                        !.update_type = types[1],
                        !.dev_update_type = types[2]])

-----------------------------------------------------------------------------
(* What happens to the repository between two runs of the program *)

BranchNames == {"main", "dev"}

MsgPlain == << <<"update", " ", "docs">> >>

MsgFeat == << <<"feat", ":", " ", "x">> >>

MsgBang == << <<"fix", "(", "api", ")", "!", ":", " ", "x">> >>

SpecMessages == {MsgPlain, MsgFeat, MsgBang}

UserTagNames == { _version_prefix \o VersionStr(Version(1, 0, 0, <<>>)) }

\* a reference: a local branch, or the branch of that name on origin
Refs == [local : BOOLEAN, name : BranchNames]

RefExists(r) ==
    IF r.local THEN r.name \in DOMAIN branches
    ELSE <<"origin", r.name>> \in DOMAIN remote_refs

RefHead(r) == IF r.local THEN branches[r.name] ELSE remote_refs[<<"origin", r.name>>]

\* the repository changes: what the last run left behind is history
Changed ==
    /\ pc = "idle"
    /\ result' = NoResult
    /\ github_output' = NoOutput
    /\ UNCHANGED <<pc, self, args, probe>>

SetHead(r, c) ==
    IF r.local
    THEN branches' = (r.name :> c) @@ branches /\ UNCHANGED remote_refs
    ELSE remote_refs' = (<<"origin", r.name>> :> c) @@ remote_refs /\ UNCHANGED branches

\* a new commit on a branch
Commit(r, msg) ==
    /\ Changed
    /\ RefExists(r)
    /\ Len(parents) < MaxCommits
    /\ parents' = Append(parents, <<RefHead(r)>>)
    /\ message' = Append(message, msg)
    /\ SetHead(r, Len(parents) + 1)
    /\ UNCHANGED tags

\* a new branch at the head of the main branch
CreateBranch(r) ==
    /\ Changed
    /\ "main" \in DOMAIN branches
    /\ ~RefExists([r EXCEPT !.local = TRUE])
    /\ ~RefExists([r EXCEPT !.local = FALSE])
    /\ SetHead(r, branches["main"])
    /\ UNCHANGED <<parents, message, tags>>

\* a new branch with a history of its own
CreateOrphanBranch(r) ==
    /\ Changed
    /\ ~RefExists([r EXCEPT !.local = TRUE])
    /\ ~RefExists([r EXCEPT !.local = FALSE])
    /\ Len(parents) < MaxCommits
    /\ parents' = Append(parents, <<>>)
    /\ message' = Append(message, MsgPlain)
    /\ SetHead(r, Len(parents) + 1)
    /\ UNCHANGED tags

\* git merge: a fast-forward where it can be one, else a merge commit
Merge(into, from) ==
    /\ Changed
    /\ RefExists(into) /\ RefExists(from)
    /\ RefHead(from) \notin Ancestors(RefHead(into))
    /\ IF RefHead(into) \in Ancestors(RefHead(from))
       THEN /\ SetHead(into, RefHead(from))
            /\ UNCHANGED <<parents, message>>
       ELSE /\ Len(parents) < MaxCommits
            /\ parents' = Append(parents, <<RefHead(into), RefHead(from)>>)
            /\ message' = Append(message, << <<"Merge">> >>)
            /\ SetHead(into, Len(parents) + 1)
    /\ UNCHANGED tags

\* git tag <name> <commit>, by hand
UserTag(name, c) ==
    /\ Changed
    /\ name \notin DOMAIN tags
    /\ tags' = (name :> c) @@ tags
    /\ UNCHANGED <<parents, message, branches, remote_refs>>

-----------------------------------------------------------------------------

MainBranchArgs == {"main", "trunk"}

DevBranchArgs == {"dev"}

DevSuffixArgs == {"dev"}

NoProbe == [fn |-> "-"]

\* the options of the workflow: the same ones at every run
Args == [include_shorter_versions : BOOLEAN, use_semantic_dev_versions : BOOLEAN,
         changelog_file : BOOLEAN]

Init ==
    /\ parents = << <<>> >>
    /\ message = <<MsgPlain>>
    /\ branches = ("main" :> 1)
    /\ remote_refs = <<>>
    /\ tags = <<>>
    /\ pc = "idle"
    /\ self = NoSelf
    /\ result = NoResult
    /\ github_output = NoOutput
    /\ args \in Args
    /\ probe = NoProbe

Next ==
    \/ \E b \in MainBranchArgs : Initialize(b)
    \/ AddMainTags
    \/ \E b \in DevBranchArgs, s \in DevSuffixArgs : AddDevTags(b, s)
    \/ \E r \in Refs, msg \in SpecMessages : Commit(r, msg)
    \/ \E r \in Refs : r.name # "main" /\ CreateBranch(r)
    \/ \E r \in Refs : r.name # "main" /\ CreateOrphanBranch(r)
    \/ \E into, from \in Refs : Merge(into, from)
    \/ \E name \in UserTagNames, c \in Commits : UserTag(name, c)

Spec == Init /\ [][Next]_vars

-----------------------------------------------------------------------------
(* The version resolver on its own: every history of MaxCommits commits    *)
(* with at most two parents each, every placement of four tags             *)

RECURSIVE Dags(_)
Dags(n) ==
    IF n = 0 THEN {<<>>}
    ELSE {Append(p, q) :
            p \in Dags(n - 1),
            q \in {<<>>} \cup {<<a>> : a \in 1..(n - 1)}
                    \cup {<<a, b>> : a \in 1..(n - 1), b \in 2..(n - 1)} }

ResolveTagNames ==
    { _version_prefix \o VersionStr(Version(1, 0, 0, <<>>)),
      _version_prefix \o VersionStr(Version(1, 0, 0, <<W("dev"), N(1)>>)),
      _version_prefix \o VersionStr(Version(1, 1, 0, <<W("dev"), N(1)>>)),
      _version_prefix \o <<N(1), Dot, N(1)>> }

TagStores(names, commits) ==
    {[n \in D |-> f[n]] : f \in [names -> commits], D \in SUBSET names}

InitResolve ==
    /\ parents \in {p \in Dags(MaxCommits) :
                      \A c \in 1..Len(p) : Len(p[c]) = 2 => p[c][1] < p[c][2]}
    /\ message = [c \in 1..MaxCommits |-> MsgPlain]
    /\ branches = ("main" :> 1)
    /\ remote_refs = <<>>
    /\ tags \in TagStores(ResolveTagNames, 1..MaxCommits)
    /\ pc = "idle"
    /\ self = NoSelf
    /\ result = NoResult
    /\ github_output = NoOutput
    /\ args = [include_shorter_versions |-> FALSE, use_semantic_dev_versions |-> FALSE,
               changelog_file |-> FALSE]
    /\ probe = NoProbe

\* a call of _get_latest_version(commit, include_prerelease)
Resolve(commit, include_prerelease) ==
    /\ probe = NoProbe
    /\ \E k \in GitChoices :
          probe' = [fn |-> "_get_latest_version", commit |-> commit,
                    include_prerelease |-> include_prerelease,
                    res |-> _get_latest_version(commit, include_prerelease, k)]
    /\ UNCHANGED <<parents, message, branches, remote_refs, tags, pc, self, result,
                   github_output, args>>

NextResolve == \E c \in Commits, i \in BOOLEAN : Resolve(c, i)

SpecResolve == InitResolve /\ [][NextResolve]_vars

-----------------------------------------------------------------------------
(* Precedence as semver.org defines it, written for the claims *)

\* identifier a comes before identifier b
IdentBefore(a, b) ==
    \/ IsNum(a) /\ IsNum(b) /\ a.n < b.n
    \/ IsNum(a) /\ IsWord(b)
    \/ IsWord(a) /\ IsWord(b) /\ WordRank(a.s) < WordRank(b.s)

\* pre-release p comes before pre-release q, both with identifiers
PrereleaseBefore(p, q) ==
    \/ \E i \in 1..Len(p) :
          /\ i <= Len(q)
          /\ \A j \in 1..(i - 1) : p[j] = q[j]
          /\ IdentBefore(p[i], q[i])
    \/ Len(p) < Len(q) /\ \A j \in 1..Len(p) : p[j] = q[j]

\* version v has a lower precedence than version w
Precedes(v, w) ==
    \/ v.major < w.major
    \/ v.major = w.major /\ v.minor < w.minor
    \/ v.major = w.major /\ v.minor = w.minor /\ v.patch < w.patch
    \/ /\ v.major = w.major /\ v.minor = w.minor /\ v.patch = w.patch
       /\ \/ v.prerelease # <<>> /\ w.prerelease = <<>>
          \/ /\ v.prerelease # <<>> /\ w.prerelease # <<>>
             /\ PrereleaseBefore(v.prerelease, w.prerelease)

\* the tags the resolver is to choose from: the names that are a version
\* (a pre-release only if wanted) on a commit that commit descends from
TagsOnHistory(commit, include_prerelease) ==
    {name \in DOMAIN tags :
        /\ VersionParse(StripPrefix(name)) # NoVersion
        /\ include_prerelease \/ VersionParse(StripPrefix(name)).prerelease = <<>>
        /\ tags[name] \in Ancestors(commit)}

\* C1: _get_latest_version(commit, include_prerelease) returns the version
\* and the commit of the tag of highest precedence among the version tags on
\* commits the target descends from (pre-release tags left out when they are
\* not wanted), and (None, None) exactly when there is no such tag.
C1_LatestIsHighestAncestorTag ==
    probe.fn = "_get_latest_version" =>
        LET on_history == TagsOnHistory(probe.commit, probe.include_prerelease)
        IN /\ (probe.res = NotFound) <=> (on_history = {})
           /\ probe.res # NotFound =>
                \E name \in on_history :
                    /\ probe.res.version = VersionParse(StripPrefix(name))
                    /\ probe.res.commit = tags[name]
                    /\ \A other \in on_history \ {name} :
                          Precedes(VersionParse(StripPrefix(other)), probe.res.version)

\* a merge commit that carries a tag that is no version and whose two parents
\* carry version tags, the higher of them a pre-release, resolved without the
\* pre-releases
C1_Witness ==
    /\ probe.fn = "_get_latest_version"
    /\ ~probe.include_prerelease
    /\ Len(parents[probe.commit]) = 2
    /\ probe.res # NotFound
    /\ probe.res.commit = parents[probe.commit][1]
    /\ \E name \in DOMAIN tags :
          /\ tags[name] = parents[probe.commit][2]
          /\ VersionParse(StripPrefix(name)) # NoVersion
          /\ Precedes(probe.res.version, VersionParse(StripPrefix(name)))
    /\ \E name \in DOMAIN tags :
          /\ tags[name] = probe.commit
          /\ VersionParse(StripPrefix(name)) = NoVersion

-----------------------------------------------------------------------------
(* The claims about a run of add_main_tags or add_dev_tags *)

\* the step of a run of add_main_tags or add_dev_tags
RunStep == pc = "ready" /\ pc' = "idle"

MainStep == RunStep /\ result'.op = "add_main_tags"

DevStep == RunStep /\ result'.op = "add_dev_tags"

\* the version of highest precedence among the version tags on the history of
\* commit, NoVersion when there is none
HighestVersion(commit, include_prerelease) ==
    LET on_history == TagsOnHistory(commit, include_prerelease)
    IN IF on_history = {} THEN NoVersion
       ELSE VersionParse(StripPrefix(
                CHOOSE name \in on_history :
                    \A other \in on_history \ {name} :
                        Precedes(VersionParse(StripPrefix(other)),
                                 VersionParse(StripPrefix(name)))))

\* commit carries the tag of the highest version on its history
CarriesLatest(commit, include_prerelease) ==
    \E name \in TagsOnHistory(commit, include_prerelease) :
        /\ tags[name] = commit
        /\ VersionParse(StripPrefix(name)) = HighestVersion(commit, include_prerelease)

\* the branch name matches no local branch and no branch of the remote
BranchNotFound(branch_name) ==
    /\ branch_name \notin DOMAIN branches
    /\ <<"origin", branch_name>> \notin DOMAIN remote_refs

\* C2: a run whose branch head already carries the latest resolved version
\* fails with AlreadyTagged and leaves the tags as they were; so does a run
\* that comes right after a successful run of the same operation with the
\* same arguments, nothing having changed in between (result is what the
\* last run left behind: every change of the repository clears it, and the
\* options are those of the last run).
C2_AlreadyTaggedAndRerun ==
    [][ /\ ( /\ MainStep
             /\ CarriesLatest(self.main_head_commit, FALSE) )
           => result'.ret = "False" /\ result'.error = "AlreadyTagged" /\ tags' = tags
        /\ ( /\ DevStep
             /\ HighestVersion(self.main_head_commit, FALSE) # NoVersion
             /\ result'.head # NoCommit
             /\ CarriesLatest(result'.head, TRUE) )
           => result'.ret = "False" /\ result'.error = "AlreadyTagged" /\ tags' = tags
        /\ ( /\ RunStep
             /\ result.ret = "True"
             /\ result.op = result'.op )
           => result'.ret = "False" /\ result'.error = "AlreadyTagged" /\ tags' = tags
      ]_vars

\* the two heads have no common ancestor, or more than one best one
NoCommonAncestor(a, b) == Cardinality(BestCommonAncestors(a, b)) # 1

\* C4: BranchNotFound (the main or the dev branch name matches nothing),
\* NoCommonAncestor (no merge base, or more than one) and
\* LatestVersionNotFound (no version tag on the history, on main or on dev)
\* each end the call with the failure value, and no tag is created, deleted
\* or moved.
C4_ErrorsReturnFailure ==
    [][ /\ (pc = "idle" /\ pc' = "ready") => ~BranchNotFound(self'.main_branch)
        /\ ( /\ MainStep
             /\ HighestVersion(self.main_head_commit, FALSE) = NoVersion )
           => result'.ret = "False" /\ tags' = tags
        /\ ( /\ DevStep
             /\ \/ BranchNotFound(result'.dev_branch)
                \/ HighestVersion(self.main_head_commit, FALSE) = NoVersion
                \/ HighestVersion(result'.head, TRUE) = NoVersion
                \/ NoCommonAncestor(self.main_head_commit, result'.head) )
           => result'.ret = "False" /\ tags' = tags
      ]_vars

\* the two versions have the same major.minor.patch
EqualBase(v, w) == v.major = w.major /\ v.minor = w.minor /\ v.patch = w.patch

\* the latest version of the main branch when a dev run starts
LatestMainVersion == HighestVersion(self.main_head_commit, FALSE)

\* the base of the new dev version: the latest main version bumped by the
\* update type of the commits of the dev branch since the merge base
BumpedBase(version, update_type) ==
    IF update_type = MAJOR THEN Version(version.major + 1, 0, 0, <<>>)
    ELSE IF update_type = MINOR THEN Version(version.major, version.minor + 1, 0, <<>>)
    ELSE Version(version.major, version.minor, version.patch + 1, <<>>)

\* C5: with the INCREMENTING style add_dev_tags produces <base>-<suffix>.<n+1>
\* when the base just bumped is that of the previous dev tag, whose
\* pre-release is <suffix>.<n>, and <new base>-<suffix>.1 when the base differs.
C5_Incrementing ==
    [][ ( /\ DevStep
          /\ result'.ret = "True"
          /\ result'.dev_version_style = INCREMENTING ) =>
          LET base == BumpedBase(LatestMainVersion, result'.update_type)
              previous == result'.latest.version
              suffix == W(result'.dev_suffix)
          IN /\ ( /\ EqualBase(base, previous)
                  /\ Len(previous.prerelease) = 2
                  /\ previous.prerelease[1] = suffix
                  /\ IsNum(previous.prerelease[2]) )
                => result'.version =
                     [base EXCEPT !.prerelease =
                        <<suffix, N(previous.prerelease[2].n + 1)>>]
             /\ ~EqualBase(base, previous)
                => result'.version = [base EXCEPT !.prerelease = <<suffix, N(1)>>]
      ]_vars

\* the second dev run on the same base: v1.0.1-dev.2 after v1.0.1-dev.1
C5_Witness ==
    /\ result.op = "add_dev_tags"
    /\ result.ret = "True"
    /\ result.dev_version_style = INCREMENTING
    /\ result.latest.version = Version(1, 0, 1, <<W("dev"), N(1)>>)
    /\ result.version = Version(1, 0, 1, <<W("dev"), N(2)>>)

\* C6: with the SEMANTIC style and the base that of the previous dev tag,
\* whose pre-release is <suffix>.a.b.c, add_dev_tags produces
\* <base>-<suffix>.a.b.(c+1) for a dev update type of PATCH,
\* <base>-<suffix>.a.(b+1).0 for MINOR and <base>-<suffix>.(a+1).0.0 for MAJOR.
C6_SemanticSameBase ==
    [][ ( /\ DevStep
          /\ result'.ret = "True"
          /\ result'.dev_version_style = SEMANTIC ) =>
          LET base == BumpedBase(LatestMainVersion, result'.update_type)
              previous == result'.latest.version
              suffix == W(result'.dev_suffix)
              pre == previous.prerelease
          IN ( /\ EqualBase(base, previous)
               /\ Len(pre) = 4
               /\ pre[1] = suffix
               /\ IsNum(pre[2]) /\ IsNum(pre[3]) /\ IsNum(pre[4]) )
             => result'.version =
                  [base EXCEPT !.prerelease =
                     IF result'.dev_update_type = PATCH
                     THEN <<suffix, pre[2], pre[3], N(pre[4].n + 1)>>
                     ELSE IF result'.dev_update_type = MINOR
                     THEN <<suffix, pre[2], N(pre[3].n + 1), N(0)>>
                     ELSE <<suffix, N(pre[2].n + 1), N(0), N(0)>>]
      ]_vars

\* a feature after the first semantic dev version of the same base:
\* dev.0.1.0 after dev.0.0.1
C6_Witness ==
    /\ result.op = "add_dev_tags"
    /\ result.ret = "True"
    /\ result.dev_version_style = SEMANTIC
    /\ result.dev_update_type = MINOR
    /\ EqualBase(result.latest.version, result.version)
    /\ result.latest.version.prerelease = <<W("dev"), N(0), N(0), N(1)>>
    /\ result.version.prerelease = <<W("dev"), N(0), N(1), N(0)>>

\* C7: with the SEMANTIC style and a base that differs from that of the
\* previous dev tag, add_dev_tags produces <new base>-<suffix>.0.0.1 whatever
\* the dev update type.
C7_SemanticBaseChange ==
    [][ ( /\ DevStep
          /\ result'.ret = "True"
          /\ result'.dev_version_style = SEMANTIC ) =>
          LET base == BumpedBase(LatestMainVersion, result'.update_type)
              previous == result'.latest.version
              suffix == W(result'.dev_suffix)
          IN ~EqualBase(base, previous)
             => result'.version =
                  [base EXCEPT !.prerelease = <<suffix, N(0), N(0), N(1)>>]
      ]_vars

-----------------------------------------------------------------------------
(* The tag publisher on its own: every store of five tag names over the    *)
(* commits, every commit, four versions, with and without shorter versions *)

\* what is the same in every specification of a function on its own
Idle ==
    /\ branches = ("main" :> 1)
    /\ remote_refs = <<>>
    /\ pc = "idle"
    /\ self = NoSelf
    /\ result = NoResult
    /\ github_output = NoOutput
    /\ args = [include_shorter_versions |-> FALSE, use_semantic_dev_versions |-> FALSE,
               changelog_file |-> FALSE]

\* a stable version, the two forms of dev version the program makes, and the
\* version of a tag with a single pre-release identifier such as v2.1.0-dev
PublishVersions ==
    { Version(2, 1, 0, <<>>),
      Version(2, 1, 0, <<W("dev"), N(3)>>),
      Version(2, 1, 0, <<W("dev"), N(0), N(0), N(1)>>),
      Version(2, 1, 0, <<W("dev")>>) }

PublishTagNames ==
    { <<W("v"), N(2), Dot, N(1), Dot, N(0)>>,
      <<W("v"), N(2)>>,
      <<W("v"), N(2), Dot, N(1), Dot, N(0), Dash, W("dev"), Dot, N(3)>>,
      <<W("v"), N(2), Dot, N(1), Dot, N(0), Dash, W("dev")>>,
      <<W("v"), N(1), Dot, N(0), Dot, N(0)>> }

InitPublish ==
    /\ parents = [c \in 1..MaxCommits |-> IF c = 1 THEN <<>> ELSE <<c - 1>>]
    /\ message = [c \in 1..MaxCommits |-> MsgPlain]
    /\ tags \in TagStores(PublishTagNames, 1..MaxCommits)
    /\ Idle
    /\ probe = NoProbe

\* a call of _add_version_tags_to_commit(commit, version); raised tells that
\* GitCommandError ended it
Publish(commit, version, include_shorter_versions) ==
    /\ probe = NoProbe
    /\ LET added == _add_version_tags_to_commit(commit, version, include_shorter_versions)
       IN /\ tags' = added.tags
          /\ probe' = [fn |-> "_add_version_tags_to_commit", commit |-> commit,
                       version |-> version,
                       include_shorter_versions |-> include_shorter_versions,
                       before |-> tags, raised |-> added.raised]
    /\ UNCHANGED <<parents, message, branches, remote_refs, pc, self, result,
                   github_output, args>>

NextPublish ==
    \E c \in Commits, v \in PublishVersions, i \in BOOLEAN : Publish(c, v, i)

SpecPublish == InitPublish /\ [][NextPublish]_vars

\* the names the claim gives a version: the full tag, and with shorter
\* versions the major.minor and major ones (for a pre-release: the
\* major.minor.patch, major.minor and major ones with the first identifier)
ClaimedNames(version, include_shorter_versions) ==
    LET v == <<W("v")>>
        mmp == <<N(version.major), Dot, N(version.minor), Dot, N(version.patch)>>
        mm == <<N(version.major), Dot, N(version.minor)>>
        m == <<N(version.major)>>
    IN IF ~include_shorter_versions
       THEN {v \o VersionStr(version)}
       ELSE IF version.prerelease = <<>>
       THEN {v \o mmp, v \o mm, v \o m}
       ELSE LET suffix == <<Dash, version.prerelease[1]>>
            IN {v \o VersionStr(version), v \o mmp \o suffix, v \o mm \o suffix,
                v \o m \o suffix}

\* after the call the names of the version are bound to the commit and
\* every other tag is as it was before
BoundAndFramed ==
    LET names == ClaimedNames(probe.version, probe.include_shorter_versions)
        strings == _get_version_strings(probe.version, probe.include_shorter_versions)
    IN /\ {strings[i] : i \in 1..Len(strings)} = names
       /\ \A name \in names : name \in DOMAIN tags /\ tags[name] = probe.commit
       /\ \A name \in (DOMAIN tags \cup DOMAIN probe.before) \ names :
             /\ name \in DOMAIN tags
             /\ name \in DOMAIN probe.before
             /\ tags[name] = probe.before[name]

\* C3: for every version and every prior tag store, after
\* _add_version_tags_to_commit(commit, version) each name of
\* _get_version_strings(version) (the names the claim lists) is bound to the
\* commit, whatever it was bound to before, and every other tag is as it was.
C3_PublisherBindsNamesOnly ==
    probe.fn = "_add_version_tags_to_commit" => BoundAndFramed

\* what the publisher does keep: the same, for the versions that are stable
\* or have more than one pre-release identifier, and the call returns
PublisherBindsNamesOfLongerVersions ==
    ( /\ probe.fn = "_add_version_tags_to_commit"
      /\ Len(probe.version.prerelease) # 1 \/ ~probe.include_shorter_versions )
    => ~probe.raised /\ BoundAndFramed

-----------------------------------------------------------------------------
(* The range scanner on its own: every range of at most MaxRange commits   *)
(* with these messages, read in every order                                *)

MsgFix == << <<"fix", ":", " ", "x">> >>

MsgBreaking == << <<"BREAKING", " ", "CHANGE", ":", " ", "x">> >>

\* a feature in the second line
MsgBody == << <<"update", " ", "docs">>, <<"Feat", "(", "api", ")", ":", " ", "x">> >>

\* a line that two rules match, and a fix
MsgTwoRules ==
    << <<"fix", "(", "a", ")", "!", ":", " ", "b", "(", "c", ")", ":">>,
       <<"fix", ":", " ", "x">> >>

\* lines that look like a rule's and match none
MsgNearMiss == << <<" ", "feat", ":", " ", "x">>, <<"feat", " ", ":">>,
                  <<"breaking", "change", ":">> >>

ScanMessages ==
    {MsgPlain, MsgFix, MsgFeat, MsgBang, MsgBreaking, MsgBody, MsgTwoRules, MsgNearMiss}

SeqsUpTo(S, n) == UNION {[1..k -> S] : k \in 0..n}

InitScan ==
    /\ parents = << <<>> >>
    /\ message = <<MsgPlain>>
    /\ tags = <<>>
    /\ Idle
    /\ probe \in {[fn |-> "range", messages |-> m] : m \in SeqsUpTo(ScanMessages, MaxRange)}

Perms(n) == {f \in [1..n -> 1..n] : \A i, j \in 1..n : i # j => f[i] # f[j]}

Reorder(seq, order) == [i \in 1..Len(seq) |-> seq[order[i]]]

\* _get_version_update_type over the commits of the range, iter_commits
\* yielding them in the given order
Scan(order) ==
    /\ probe.fn = "range"
    /\ probe' = [fn |-> "_get_version_update_type", messages |-> probe.messages,
                 order |-> order,
                 res |-> VersionUpdateOf(Reorder(probe.messages, order))]
    /\ UNCHANGED <<parents, message, branches, remote_refs, tags, pc, self, result,
                   github_output, args>>

NextScan == \E order \in Perms(Len(probe.messages)) : Scan(order)

SpecScan == InitScan /\ [][NextScan]_vars

\* the severities of the rules that match a line of a message of the range
MatchedSeverities(messages) ==
    { _version_update_regexes[r].version_update :
        r \in {r \in 1..Len(_version_update_regexes) :
                 \E c \in 1..Len(messages) : \E l \in 1..Len(messages[c]) :
                    RegexMatch(_version_update_regexes[r], messages[c][l]).matched} }

\* C8: the severity _get_version_update_type returns for a range is the
\* maximum of the severities of the rule-matching lines of its commits, and
\* it is the same in whatever order the commits are read: in every order it
\* is what it is in the order the range was given in.
C8_MaxSeverityAnyOrder ==
    probe.fn = "_get_version_update_type" =>
        /\ MatchedSeverities(probe.messages) # {}
              => probe.res = Max(MatchedSeverities(probe.messages))
        /\ probe.res = VersionUpdateOf(probe.messages)

\* three commits read in another order than given, a breaking fix read
\* first, then a fix, then a feature: MAJOR
C8_Witness ==
    /\ probe.fn = "_get_version_update_type"
    /\ probe.messages = <<MsgFeat, MsgBang, MsgFix>>
    /\ probe.order = <<2, 3, 1>>
    /\ probe.res = MAJOR

-----------------------------------------------------------------------------
(* The bumper on its own: every version with numbers up to MaxNum, with    *)
(* and without a pre-release, and every update type                        *)

BumpVersions ==
    { Version(major, minor, patch, prerelease) :
        major \in 0..MaxNum, minor \in 0..MaxNum, patch \in 0..MaxNum,
        prerelease \in { <<>>, <<W("dev"), N(1)>>, <<W("rc"), N(0), N(0), N(1)>> } }

InitBump ==
    /\ parents = << <<>> >>
    /\ message = <<MsgPlain>>
    /\ tags = <<>>
    /\ Idle
    /\ probe \in {[fn |-> "version", version |-> v, update_type |-> t] :
                    v \in BumpVersions, t \in VersionUpdateEnum}

\* a call of _bump_version(previous_version, update_type)
Bump ==
    /\ probe.fn = "version"
    /\ probe' = [fn |-> "_bump_version", version |-> probe.version,
                 update_type |-> probe.update_type,
                 res |-> _bump_version(probe.version, probe.update_type)]
    /\ UNCHANGED <<parents, message, branches, remote_refs, tags, pc, self, result,
                   github_output, args>>

NextBump == Bump

SpecBump == InitBump /\ [][NextBump]_vars

\* C9: _bump_version(v, MAJOR) is (major+1).0.0, _bump_version(v, MINOR) is
\* major.(minor+1).0 and _bump_version(v, PATCH) is major.minor.(patch+1), for
\* every version v, with a pre-release or without, and the result never has
\* a pre-release.
C9_BumpVersion ==
    probe.fn = "_bump_version" =>
        LET v == probe.version
        IN /\ probe.update_type = MAJOR =>
                probe.res = [major |-> v.major + 1, minor |-> 0, patch |-> 0,
                             prerelease |-> <<>>]
           /\ probe.update_type = MINOR =>
                probe.res = [major |-> v.major, minor |-> v.minor + 1, patch |-> 0,
                             prerelease |-> <<>>]
           /\ probe.update_type = PATCH =>
                probe.res = [major |-> v.major, minor |-> v.minor, patch |-> v.patch + 1,
                             prerelease |-> <<>>]
           /\ probe.res.prerelease = <<>>

\* 1.2.2-dev.1 bumped by MINOR: 1.3.0
C9_Witness ==
    /\ probe.fn = "_bump_version"
    /\ probe.version = Version(1, 2, 2, <<W("dev"), N(1)>>)
    /\ probe.update_type = MINOR
    /\ probe.res = Version(1, 3, 0, <<>>)

-----------------------------------------------------------------------------
(* The scope formatter.  Here text is a sequence of characters.            *)

LowerLetters ==
    <<"a", "b", "c", "d", "e", "f", "g", "h", "i", "j", "k", "l", "m",
      "n", "o", "p", "q", "r", "s", "t", "u", "v", "w", "x", "y", "z">>

UpperLetters ==
    <<"A", "B", "C", "D", "E", "F", "G", "H", "I", "J", "K", "L", "M",
      "N", "O", "P", "Q", "R", "S", "T", "U", "V", "W", "X", "Y", "Z">>

\* [a-z]
IsLower(c) == \E i \in 1..Len(LowerLetters) : LowerLetters[i] = c

\* [A-Z]
IsUpper(c) == \E i \in 1..Len(UpperLetters) : UpperLetters[i] = c

\* [0-9]
IsDigit(c) == c \in {"0", "1", "2", "3", "4", "5", "6", "7", "8", "9"}

\* [_\-]
IsSeparator(c) == c \in {"_", "-"}

ToUpper(c) ==
    IF IsLower(c) THEN UpperLetters[CHOOSE i \in 1..Len(LowerLetters) : LowerLetters[i] = c]
    ELSE c

ToLower(c) ==
    IF IsUpper(c) THEN LowerLetters[CHOOSE i \in 1..Len(UpperLetters) : UpperLetters[i] = c]
    ELSE c

\* WORD_BOUNDARY_RE matches the empty string before scope[i]:
\* (?<=[a-z0-9])(?=[A-Z]) or (?<=[A-Z])(?=[A-Z][a-z])
IsWordBoundary(scope, i) ==
    /\ i > 1
    /\ IsUpper(scope[i])
    /\ \/ IsLower(scope[i - 1]) \/ IsDigit(scope[i - 1])
       \/ IsUpper(scope[i - 1]) /\ i < Len(scope) /\ IsLower(scope[i + 1])

RECURSIVE WordBoundarySub(_, _)
\* WORD_BOUNDARY_RE.sub(" ", scope) from scope[i] on: a space at each
\* boundary and in the place of each run of separators
WordBoundarySub(scope, i) ==
    IF i > Len(scope) THEN <<>>
    ELSE IF IsSeparator(scope[i])
    THEN (IF i > 1 /\ IsSeparator(scope[i - 1]) THEN <<>> ELSE <<" ">>)
            \o WordBoundarySub(scope, i + 1)
    ELSE (IF IsWordBoundary(scope, i) THEN <<" ">> ELSE <<>>)
            \o <<scope[i]>> \o WordBoundarySub(scope, i + 1)

RECURSIVE CollapseSpaces(_)
\* re.sub(r"\s+", " ", text)
CollapseSpaces(text) ==
    IF text = <<>> THEN <<>>
    ELSE IF IsSpace(Head(text))
    THEN IF Len(text) > 1 /\ IsSpace(text[2]) THEN CollapseSpaces(Tail(text))
         ELSE <<" ">> \o CollapseSpaces(Tail(text))
    ELSE <<Head(text)>> \o CollapseSpaces(Tail(text))

\* text.strip()
Strip(text) ==
    LET kept == {i \in 1..Len(text) : ~IsSpace(text[i])}
    IN IF kept = {} THEN <<>> ELSE SubSeq(text, Min(kept), Max(kept))

\* text.title(): a letter that follows a letter in lower case, any other
\* letter in upper case
Title(text) ==
    [i \in 1..Len(text) |->
        IF i > 1 /\ (IsLower(text[i - 1]) \/ IsUpper(text[i - 1]))
        THEN ToLower(text[i])
        ELSE ToUpper(text[i])]

RECURSIVE split_scope_words(_)
\* SemanticVersioner.split_scope_words(scope)
split_scope_words(scope) ==
    LET by_comma == Split(scope, ",")
        by_slash == Split(scope, "/")
    IN IF Len(by_comma) > 1
       THEN Join([i \in 1..Len(by_comma) |-> split_scope_words(by_comma[i])], <<",", " ">>)
       ELSE IF Len(by_slash) > 1
       THEN Join([i \in 1..Len(by_slash) |-> split_scope_words(by_slash[i])], <<"/">>)
       ELSE IF scope = <<>> THEN <<>>
       ELSE Title(Strip(CollapseSpaces(WordBoundarySub(scope, 1))))

\* the scopes of the claim
ScopeFooBar == <<"f", "o", "o", "B", "a", "r">>

ScopeHTTPServer == <<"H", "T", "T", "P", "S", "e", "r", "v", "e", "r">>

ScopeSnakeKebab == <<"a", "_", "b", "-", "c">>

ScopeCommaList == <<"a", ",", "b">>

ScopeSlashList == <<"x", "/", "y">>

ScopeChars == {"a", "B", "C", "1", "_", ",", "/", " "}

\* every scope of at most MaxScopeLen of these characters, and the claim's
Scopes ==
    SeqsUpTo(ScopeChars, MaxScopeLen)
        \cup {ScopeFooBar, ScopeHTTPServer, ScopeSnakeKebab, ScopeCommaList, ScopeSlashList}

InitScope ==
    /\ parents = << <<>> >>
    /\ message = <<MsgPlain>>
    /\ tags = <<>>
    /\ Idle
    /\ probe \in {[fn |-> "scope", scope |-> scope] : scope \in Scopes}

\* a call of split_scope_words(scope)
Format ==
    /\ probe.fn = "scope"
    /\ probe' = [fn |-> "split_scope_words", scope |-> probe.scope,
                 res |-> split_scope_words(probe.scope)]
    /\ UNCHANGED <<parents, message, branches, remote_refs, tags, pc, self, result,
                   github_output, args>>

NextScope == Format

SpecScope == InitScope /\ [][NextScope]_vars

\* C10: split_scope_words splits comma and slash lists and puts spaces at the
\* lower-to-upper, acronym-to-word and underscore or hyphen boundaries, and
\* keeps acronyms: "fooBar" gives "Foo Bar", "HTTPServer" gives
\* "HTTP Server", "a_b-c" gives "A B C", "a,b" gives "A, B", "x/y" gives
\* "X/Y" and the empty scope gives the empty string.
C10_ScopeExamples ==
    probe.fn = "split_scope_words" =>
        /\ probe.scope = ScopeFooBar
              => probe.res = <<"F", "o", "o", " ", "B", "a", "r">>
        /\ probe.scope = ScopeHTTPServer
              => probe.res = <<"H", "T", "T", "P", " ", "S", "e", "r", "v", "e", "r">>
        /\ probe.scope = ScopeSnakeKebab
              => probe.res = <<"A", " ", "B", " ", "C">>
        /\ probe.scope = ScopeCommaList
              => probe.res = <<"A", ",", " ", "B">>
        /\ probe.scope = ScopeSlashList
              => probe.res = <<"X", "/", "Y">>
        /\ probe.scope = <<>> => probe.res = <<>>

-----------------------------------------------------------------------------
(* The severity of a range without a conventional-commit line *)

\* the messages of the commits add_main_tags scans: those on the history of
\* the main head and not on that of the commit of the latest version
MainRangeMessages(latest_commit) ==
    MessagesOf(iter_commits(latest_commit, self.main_head_commit))

\* C11: when no line of any commit of the range matches a rule, the range
\* has no severity and add_main_tags computes a new version equal to the
\* latest version: the patch number does not advance.
C11_NoMatchKeepsVersion ==
    [][ ( /\ MainStep
          /\ result'.ret = "True"
          /\ MatchedSeverities(MainRangeMessages(result'.latest.commit)) = {} )
        => result'.version = result'.latest.version
      ]_vars

-----------------------------------------------------------------------------
(* The dev pre-release engine on its own: every latest main version, every *)
(* previous dev version of these bases and pre-releases, every pair of     *)
(* update types and both styles                                            *)

EngineMainVersions == { Version(1, minor, patch, <<>>) : minor \in 0..1, patch \in 0..1 }

\* the pre-release of the tag found on the dev history: none, the
\* incrementing form, the semantic form, and forms a tag made by hand has
EnginePrereleases ==
    { <<>>, <<W("dev")>>, <<W("dev"), W("x")>>, <<W("rc"), N(1)>>,
      <<W("dev"), N(1), N(2)>>, <<W("dev"), N(1), N(0), N(0), N(0)>> }
    \cup { <<W("dev"), N(n)>> : n \in 0..MaxNum }
    \cup { <<W("dev"), N(a), N(b), N(c)>> : a \in 0..MaxNum, b \in 0..MaxNum, c \in 0..MaxNum }

EngineDevVersions ==
    { Version(major, minor, patch, prerelease) :
        major \in 1..2, minor \in 0..1, patch \in 0..1, prerelease \in EnginePrereleases }

InitEngine ==
    /\ parents = << <<>> >>
    /\ message = <<MsgPlain>>
    /\ tags = <<>>
    /\ Idle
    /\ probe \in {[fn |-> "versions",
                   latest_main_version |-> m, latest_dev_version |-> d,
                   version_update_type |-> t, dev_version_update_type |-> u,
                   dev_version_style |-> style] :
                    m \in EngineMainVersions, d \in EngineDevVersions,
                    t \in VersionUpdateEnum, u \in VersionUpdateEnum,
                    style \in DevVersionStyle}

\* lines 378-471 of add_dev_tags(dev_branch, "dev", dev_version_style)
ComputeDevVersion ==
    /\ probe.fn = "versions"
    /\ probe' = [probe EXCEPT
                    !.fn = "add_dev_tags"] @@
                [res |-> NextDevVersion(probe.latest_main_version,
                                        probe.latest_dev_version,
                                        probe.version_update_type,
                                        probe.dev_version_update_type,
                                        "dev", probe.dev_version_style)]
    /\ UNCHANGED <<parents, message, branches, remote_refs, tags, pc, self, result,
                   github_output, args>>

NextEngine == ComputeDevVersion

SpecEngine == InitEngine /\ [][NextEngine]_vars

\* C12: with the SEMANTIC style and the base just bumped that of the previous
\* dev version, the engine produces a next dev version whatever the
\* pre-release of the previous version (the incrementing form <suffix>.<n>
\* and no pre-release included) and whatever the two update types: the
\* computation does not fail.
C12_SemanticNeverFails ==
    ( /\ probe.fn = "add_dev_tags"
      /\ probe.dev_version_style = SEMANTIC
      /\ EqualBase(BumpedBase(probe.latest_main_version, probe.version_update_type),
                   probe.latest_dev_version) )
    => probe.res.raised = "" /\ probe.res.version # NoVersion

-----------------------------------------------------------------------------
(* generate_changelog.  The changelog is a function from scopes to         *)
(* functions from commit types to sequences of messages.                   *)

\* version_update = None
NoVersionUpdate == -1

\* scope = None, which is also what group("scope") is for a line without (...)
NoScope == [scoped |-> FALSE, scope |-> <<>>]

\* _changelog_regex.match(line): ^CHANGELOG:\s*(?P<message>.*)$
MatchChangelog(line) ==
    IF Len(line) >= 2 /\ line[1] = "CHANGELOG" /\ line[2] = ":"
    THEN LET text == {i \in 3..Len(line) : ~IsSpace(line[i])}
         IN [matched |-> TRUE,
             message |-> IF text = {} THEN <<>> ELSE SubSeq(line, Min(text), Len(line))]
    ELSE [matched |-> FALSE, message |-> <<>>]

\* lines 214-218: the body of the loop over the rules; the pattern of the
\* breaking change rule has no group named scope, so group("scope") raises
ChangelogRuleStep(commit, rule, line) ==
    LET version_update_match == RegexMatch(rule, line)
    IN IF commit.raised # "" \/ ~version_update_match.matched THEN commit
       ELSE IF rule.regex = "breaking"
       THEN [commit EXCEPT !.version_update = rule.version_update,
                           !.commit_type = rule.commit_type,
                           !.raised = "IndexError"]
       ELSE [commit EXCEPT !.version_update = rule.version_update,
                           !.commit_type = rule.commit_type,
                           !.scope = [scoped |-> version_update_match.scoped,
                                      scope |-> version_update_match.scope]]

RECURSIVE FoldChangelogRules(_, _, _)
FoldChangelogRules(commit, i, line) ==
    IF i > Len(_version_update_regexes) THEN commit
    ELSE FoldChangelogRules(ChangelogRuleStep(commit, _version_update_regexes[i], line),
                            i + 1, line)

RECURSIVE FoldChangelogLines(_, _)
\* lines 207-218: the loop over the lines of a commit message
FoldChangelogLines(commit, lines) ==
    IF lines = <<>> \/ commit.raised # "" THEN commit
    ELSE LET changelog_match == MatchChangelog(Head(lines))
             harvested ==
                IF changelog_match.matched
                THEN [commit EXCEPT !.changelog_messages =
                                        Append(@, changelog_match.message)]
                ELSE commit
         IN FoldChangelogLines(FoldChangelogRules(harvested, 1, Head(lines)),
                               Tail(lines))

\* lines 203-218: what the loop over the lines leaves of a commit
CommitChangelog(lines) ==
    FoldChangelogLines([changelog_messages |-> <<>>,
                        version_update |-> NoVersionUpdate,
                        scope |-> NoScope,
                        commit_type |-> CommitType_OTHER,
                        raised |-> ""], lines)

\* lines 220-229: the messages of a commit added to the changelog
FileCommit(changelog, commit) ==
    IF commit.changelog_messages = <<>> THEN changelog
    ELSE LET changelog_messages ==
                IF commit.version_update = MAJOR
                THEN [i \in 1..Len(commit.changelog_messages) |->
                        commit.changelog_messages[i] \o <<" (BREAKING CHANGE)">>]
                ELSE commit.changelog_messages
             of_scope == IF commit.scope \in DOMAIN changelog
                         THEN changelog[commit.scope] ELSE <<>>
             of_type == IF commit.commit_type \in DOMAIN of_scope
                        THEN of_scope[commit.commit_type] ELSE <<>>
         IN (commit.scope :>
                ((commit.commit_type :> (of_type \o changelog_messages)) @@ of_scope))
            @@ changelog

RECURSIVE FoldChangelogCommits(_, _)
\* lines 201-229: the loop over the commits, in the order iter_commits
\* yields them
FoldChangelogCommits(changelog, messages) ==
    IF messages = <<>> THEN [result |-> changelog, raised |-> ""]
    ELSE LET commit == CommitChangelog(Head(messages))
         IN IF commit.raised # "" THEN [result |-> changelog, raised |-> commit.raised]
            ELSE FoldChangelogCommits(FileCommit(changelog, commit), Tail(messages))

\* generate_changelog(start_commit, end_commit, changelog_message), messages
\* being those of the commits of start_commit..end_commit and <<>> standing
\* for no changelog_message
generate_changelog(messages, changelog_message) ==
    FoldChangelogCommits(
        IF changelog_message # <<>>
        THEN NoScope :> (CommitType_OTHER :> <<changelog_message>>)
        ELSE <<>>,
        messages)

-----------------------------------------------------------------------------
(* The changelog generator on its own: every range of at most MaxRange     *)
(* commits with these messages, with and without a changelog_message       *)

ChangelogMessages ==
    { MsgPlain, MsgFeat,
      << <<"CHANGELOG", ":", " ", "note">> >>,
      << <<"fix", "(", "api", ")", ":", " ", "x">>, <<"CHANGELOG", ":", " ", "fixed">> >>,
      << <<"feat", "(", "api", ")", "!", ":", " ", "x">>,
         <<"CHANGELOG", ":", " ", "new", " ", "api">>, <<"CHANGELOG", ":", "second">> >>,
      << <<"fix", "!", ":", " ", "a">>, <<"fix", ":", " ", "b">>,
         <<"CHANGELOG", ":", " ", "both">> >>,
      << <<"CHANGELOG", ":", " ", "dropped">>, <<"Breaking", " ", "change", ":", " ", "y">> >>,
      << <<"fix", "(", ")", ":", " ", "x">>, <<"CHANGELOG", ":", " ", "empty", " ", "scope">> >> }

InitChangelog ==
    /\ parents = << <<>> >>
    /\ message = <<MsgPlain>>
    /\ tags = <<>>
    /\ Idle
    /\ probe \in {[fn |-> "log", messages |-> m, changelog_message |-> c] :
                    m \in SeqsUpTo(ChangelogMessages, MaxRange),
                    c \in {<<>>, <<"Release", " ", "notes">>}}

\* a call of generate_changelog(start_commit, end_commit, changelog_message)
GenerateChangelog ==
    /\ probe.fn = "log"
    /\ probe' = [fn |-> "generate_changelog", messages |-> probe.messages,
                 changelog_message |-> probe.changelog_message,
                 res |-> generate_changelog(probe.messages, probe.changelog_message)]
    /\ UNCHANGED <<parents, message, branches, remote_refs, tags, pc, self, result,
                   github_output, args>>

NextChangelog == GenerateChangelog

SpecChangelog == InitChangelog /\ [][NextChangelog]_vars

\* the rules that match the line, by their place in the list
MatchingRules(line) ==
    {r \in 1..Len(_version_update_regexes) :
        RegexMatch(_version_update_regexes[r], line).matched}

\* the last rule of the list that matches the line
LastRule(line) == _version_update_regexes[Max(MatchingRules(line))]

\* the lines of the commit message that some rule matches, by their place
ClassifiedLines(lines) == {l \in 1..Len(lines) : MatchingRules(lines[l]) # {}}

\* the texts of the CHANGELOG: lines of the commit message
ChangelogTexts(lines) ==
    {MatchChangelog(lines[l]).message :
        l \in {l \in 1..Len(lines) : MatchChangelog(lines[l]).matched}}

Annotated(text) == text \o <<" (BREAKING CHANGE)">>

\* every message of the changelog, whatever its scope and category
Filed(changelog) ==
    UNION { UNION { {changelog[scope][type][i] : i \in 1..Len(changelog[scope][type])} :
                      type \in DOMAIN changelog[scope] } :
              scope \in DOMAIN changelog }

\* C13: a line is classified by the last rule of the list that matches it:
\* scanned on its own it has that rule's severity, so a breaking change:
\* line has MAJOR; and generate_changelog completes, a commit whose
\* classifying line is a breaking change: line having its messages filed
\* under no scope and the category OTHER.
C13_LastMatchClassifies ==
    probe.fn = "generate_changelog" =>
        /\ \A c \in 1..Len(probe.messages) : \A l \in ClassifiedLines(probe.messages[c]) :
              VersionUpdateOf(<< <<probe.messages[c][l]>> >>)
                = LastRule(probe.messages[c][l]).version_update
        /\ probe.res.raised = ""
        /\ \A c \in 1..Len(probe.messages) :
              LET lines == probe.messages[c]
              IN ( /\ ChangelogTexts(lines) # {}
                   /\ ClassifiedLines(lines) # {}
                   /\ LastRule(lines[Max(ClassifiedLines(lines))]).regex = "breaking" )
                 => /\ NoScope \in DOMAIN probe.res.result
                    /\ CommitType_OTHER \in DOMAIN probe.res.result[NoScope]
                    /\ \A text \in ChangelogTexts(lines) :
                          \E i \in 1..Len(probe.res.result[NoScope][CommitType_OTHER]) :
                             probe.res.result[NoScope][CommitType_OTHER][i] = Annotated(text)

\* C14: when generate_changelog completes, the messages of a commit with a
\* CHANGELOG: line are annotated as a breaking change exactly when the
\* severity the commit contributes to the range (the maximum over its
\* lines) is MAJOR, whatever the order of its lines.
C14_AnnotatedIffCommitMajor ==
    ( probe.fn = "generate_changelog" /\ probe.res.raised = "" ) =>
        \A c \in 1..Len(probe.messages) : \A text \in ChangelogTexts(probe.messages[c]) :
            IF VersionUpdateOf(<<probe.messages[c]>>) = MAJOR
            THEN /\ Annotated(text) \in Filed(probe.res.result)
                 /\ text \notin Filed(probe.res.result)
            ELSE /\ text \in Filed(probe.res.result)
                 /\ Annotated(text) \notin Filed(probe.res.result)

\* generate_changelog fails exactly when a line of the range is one the
\* breaking change rule matches: what the runs of add_main_tags and
\* add_dev_tags with a changelog file rely on
ChangelogRaisesOnBreakingLine ==
    probe.fn = "generate_changelog" =>
        ((probe.res.raised # "") <=> ChangelogRaises(probe.messages))

-----------------------------------------------------------------------------
(* The pre-release train *)

\* C15: whenever add_dev_tags succeeds, the version it tags is strictly
\* greater in precedence than the previous dev version (the latest version
\* tag, stable or pre-release, on the history of the dev head), and the
\* resolver applied to the commit just tagged returns the version just
\* published.
C15_DevVersionsMoveForward ==
    ( /\ result.op = "add_dev_tags"
      /\ result.ret = "True" )
    => /\ Precedes(result.latest.version, result.version)
       /\ HighestVersion(result.commit, TRUE) = result.version

=============================================================================
